---------------------------- MODULE Spec2Model ----------------------------
(***************************************************************************)
(* Model of the consensus orchestrator (consensus/src/consensus.rs): the   *)
(* bounded block-task channel, the callers of validate_and_insert_block    *)
(* and signal_exit, init / Service::start, drop, and the header-processor  *)
(* worker that drains the channel and writes the stores.                   *)
(***************************************************************************)
EXTENDS Integers, Sequences, FiniteSets, TLC

\* ------------------------------------------------------------------ bounds
\* Capacity of the block-task channel. The program uses bounded(2000); the
\* model scales the capacity down so that a full channel is reachable.
Capacity == 2
\* Threads that call validate_and_insert_block / signal_exit.
NCallers == 2
\* Total number of validate_and_insert_block calls in a run.
MaxSubmit == 2
\* Total number of signal_exit / Service::stop calls in a run.
MaxExit == 1
\* Total number of init / Service::start calls in a run.
MaxInit == 2
\* Number of non-genesis blocks that callers may submit.
NBlocks == 2
\* Number of non-genesis headers in the DAGs the stores are checked on.
NReach == 5

\* ------------------------------------------------------------------ values
Callers == 1 .. NCallers
Workers == 1 .. MaxInit

ORIGIN == 0
GENESIS == 1
Blocks == (GENESIS + 1) .. (GENESIS + NBlocks)
Hashes == {GENESIS} \cup Blocks

NoTask == [kind |-> "None", block |-> 0, id |-> 0, afterInit |-> FALSE, busy |-> FALSE]
NoRec == [present |-> FALSE]

\* The four store handles created by Consensus::new.
StatusesHandle == "statuses_store"
RelationsHandle == "relations_store"
ReachabilityHandle == "reachability_store"
GhostdagHandle == "ghostdag_store"

\* A header is fixed by its hash: genesis has no parents, the first block
\* builds on genesis, every later block merges its two predecessors.
Parents(h) ==
    IF h = GENESIS THEN {}
    ELSE IF h = GENESIS + 1 THEN {GENESIS}
    ELSE {h - 2, h - 1}

VARIABLES
    alive,        \* the Consensus object (and so its Sender) exists
    chan,         \* the bounded channel: tasks pending, oldest first
    sent,         \* history: every task ever put on the channel, in order
    nDequeued,    \* history: number of tasks taken off the channel
    callPc,       \* per caller: "idle" | "blocked" | "panicked"
    callTask,     \* per caller: the task a blocked send is holding
    callInfo,     \* per caller: facts about its latest call (history)
    nSubmit,      \* validate_and_insert_block calls made
    nExit,        \* signal_exit calls made
    initPc,       \* position of the thread inside init
    nInit,        \* init calls made
    wpc,          \* per worker: position of the worker thread
    cur,          \* per worker: the task being processed
    exitedBy,     \* per worker: id of the sentinel it honored (0: none)
    started,      \* history: ids of Process tasks, in order processing began
    finished,     \* history: ids of Process tasks, in order processing ended
    dropPc,       \* position inside Consensus::drop
    released,     \* the pair of store handles drop returned
    statuses,     \* status store: hash -> status
    relations,    \* relations store: hash -> parents / children
    reachability, \* reachability store: hash -> tree parent / children / fcs
    ghostdag      \* GHOSTDAG store: hash -> selected parent / blue score

chanVars == <<chan, sent, nDequeued>>
callVars == <<callPc, callTask, callInfo, nSubmit, nExit>>
initVars == <<initPc, nInit>>
workVars == <<wpc, cur, exitedBy, started, finished>>
dropVars == <<alive, dropPc, released>>
storeVars == <<statuses, relations, reachability, ghostdag>>
vars == <<chanVars, callVars, initVars, workVars, dropVars, storeVars>>

\* ------------------------------------------------------------ construction
\* Consensus::new: the store handles kept in the fields of Self.
ConsensusFields ==
    [statuses_store |-> StatusesHandle,
     relations_store |-> RelationsHandle,
     reachability_store |-> ReachabilityHandle,
     ghostdag_store |-> GhostdagHandle]

\* Consensus::new: the store handles handed to HeaderProcessor::new.
HeaderProcessorWiring ==
    [relations_store |-> RelationsHandle,
     reachability_store |-> ReachabilityHandle,
     ghostdag_store |-> GhostdagHandle]

NoInfo == [kind |-> "None", lenAtCall |-> 0, deqAtCall |-> 0, waited |-> FALSE,
           afterInit |-> FALSE, afterStop |-> FALSE, result |-> "none"]

Init ==
    /\ alive = TRUE
    /\ chan = << >>
    /\ sent = << >>
    /\ nDequeued = 0
    /\ callPc = [c \in Callers |-> "idle"]
    /\ callTask = [c \in Callers |-> NoTask]
    /\ callInfo = [c \in Callers |-> NoInfo]
    /\ nSubmit = 0
    /\ nExit = 0
    /\ initPc = "idle"
    /\ nInit = 0
    /\ wpc = [w \in Workers |-> "unspawned"]
    /\ cur = [w \in Workers |-> NoTask]
    /\ exitedBy = [w \in Workers |-> 0]
    /\ started = << >>
    /\ finished = << >>
    /\ dropPc = "none"
    /\ released = << >>
    /\ statuses = [h \in Hashes |-> "unknown"]
    /\ relations = [h \in Hashes |-> NoRec]
    /\ reachability = [h \in {ORIGIN} \cup Hashes |-> NoRec]
    /\ ghostdag = [h \in Hashes |-> NoRec]

\* ----------------------------------------------------------------- channel
\* A worker thread that has been spawned and has not returned.
Running(w) == wpc[w] \notin {"unspawned", "exited"}

\* The Receiver lives inside the HeaderProcessor, which Self and every
\* running worker thread hold through an Arc: the channel has a receiver
\* for as long as the Consensus object or a worker thread exists.
ReceiverAlive == alive \/ \E w \in Workers : Running(w)

\* Off by one: a send still finds room on a channel that holds Capacity tasks.
HasRoomOffByOne(q) == Len(q) <= Capacity

\* bounded(2000): a send finds room while fewer than Capacity tasks wait.
HasRoom(q) == Len(q) < Capacity

\* Sender::send on a channel with room: the task goes to the back.
Enqueue(q, t) == Append(q, t)

\* A call of init has returned (it has spawned its worker).
InitReturned == \E w \in Workers : wpc[w] # "unspawned"

\* A worker has honored the sentinel and returned, and no worker thread is
\* running or about to be spawned.
PipelineStopped ==
    /\ \E w \in Workers : wpc[w] = "exited" /\ exitedBy[w] # 0
    /\ \A w \in Workers : ~Running(w)
    /\ initPc = "idle"

\* A worker thread is inside the update sequence of a block.
Busy ==
    \E w \in Workers :
        wpc[w] \in {"validate", "relations", "reachability", "ghostdag", "status"}

\* The task with the next position in the channel's history; a sentinel
\* remembers whether a call of init had returned, and whether a block was
\* being processed, when it was enqueued.
Stamp(kind, b) ==
    [kind |-> kind, block |-> b, id |-> Len(sent) + 1,
     afterInit |-> (kind = "Exit" /\ InitReturned),
     busy |-> (kind = "Exit" /\ Busy)]

\* A try_send whose result is ignored: on a full channel the call returns
\* and the task is lost.
SendCallLossy(c, kind, b) ==
    LET info == [NoInfo EXCEPT !.kind = kind, !.afterStop = PipelineStopped,
                               !.afterInit = (kind = "Exit" /\ InitReturned),
                               !.result = "accepted"]
    IN  /\ callInfo' = [callInfo EXCEPT ![c] = info]
        /\ IF HasRoom(chan)
           THEN /\ chan' = Enqueue(chan, Stamp(kind, b))
                /\ sent' = Append(sent, Stamp(kind, b))
           ELSE UNCHANGED <<chan, sent>>
        /\ UNCHANGED <<nDequeued, callPc, callTask>>

\* self.block_sender.send(task).unwrap(), from the call to its first
\* outcome: Err (no receiver) panics in unwrap, a channel with room takes
\* the task and the call returns, a full channel parks the caller.
\* callInfo keeps, of the latest call, whether it came after the pipeline
\* stopped (for signal_exit: after init had returned), whether it was parked
\* and how it ended and, while the call is parked, what the channel looked
\* like when it was made.
SendCall(c, kind, b) ==
    LET info == [NoInfo EXCEPT !.kind = kind, !.afterStop = PipelineStopped,
                               !.afterInit = (kind = "Exit" /\ InitReturned)]
    IN  IF ~ReceiverAlive
        THEN /\ callPc' = [callPc EXCEPT ![c] = "panicked"]
             /\ callInfo' = [callInfo EXCEPT ![c] = [info EXCEPT !.result = "failed"]]
             /\ UNCHANGED <<chanVars, callTask>>
        ELSE IF HasRoom(chan)
        THEN /\ chan' = Enqueue(chan, Stamp(kind, b))
             /\ sent' = Append(sent, Stamp(kind, b))
             /\ callInfo' = [callInfo EXCEPT ![c] = [info EXCEPT !.result = "accepted"]]
             /\ UNCHANGED <<nDequeued, callPc, callTask>>
        ELSE /\ callPc' = [callPc EXCEPT ![c] = "blocked"]
             /\ callTask' = [callTask EXCEPT ![c] = [NoTask EXCEPT !.kind = kind, !.block = b]]
             /\ callInfo' = [callInfo EXCEPT ![c] =
                    [info EXCEPT !.lenAtCall = Len(chan), !.deqAtCall = nDequeued,
                                 !.waited = TRUE]]
             /\ UNCHANGED chanVars

\* A caller may use &self only while the Consensus exists and has not been
\* moved into drop.
CanCall(c) == alive /\ dropPc = "none" /\ callPc[c] = "idle"

\* The wrong variant: the call sends BlockTask::Exit as signal_exit does.
validate_sends_exit(c, b) ==
    /\ CanCall(c)
    /\ nSubmit < MaxSubmit
    /\ nSubmit' = nSubmit + 1
    /\ SendCall(c, "Exit", 0)
    /\ UNCHANGED <<nExit, initVars, workVars, dropVars, storeVars>>

\* Consensus::validate_and_insert_block(block)
validate_and_insert_block(c, b) ==
    /\ CanCall(c)
    /\ nSubmit < MaxSubmit
    /\ nSubmit' = nSubmit + 1
    /\ SendCall(c, "Process", b)
    /\ UNCHANGED <<nExit, initVars, workVars, dropVars, storeVars>>

\* Consensus::signal_exit()
signal_exit(c) ==
    /\ CanCall(c)
    /\ nExit < MaxExit
    /\ nExit' = nExit + 1
    /\ SendCall(c, "Exit", 0)
    /\ UNCHANGED <<nSubmit, initVars, workVars, dropVars, storeVars>>

\* Service::stop: self.signal_exit()
stop(c) == signal_exit(c)

\* A parked send completes: with room the task is enqueued and the call
\* returns; with the last receiver gone the send fails and unwrap panics.
SendResume(c) ==
    /\ callPc[c] = "blocked"
    /\ IF ~ReceiverAlive
       THEN /\ callPc' = [callPc EXCEPT ![c] = "panicked"]
            /\ callInfo' = [callInfo EXCEPT ![c].result = "failed"]
            /\ UNCHANGED chanVars
       ELSE /\ HasRoom(chan)
            /\ chan' = Enqueue(chan, Stamp(callTask[c].kind, callTask[c].block))
            /\ sent' = Append(sent, Stamp(callTask[c].kind, callTask[c].block))
            /\ callPc' = [callPc EXCEPT ![c] = "idle"]
            /\ callInfo' = [callInfo EXCEPT ![c] =
                   [@ EXCEPT !.result = "accepted", !.lenAtCall = 0, !.deqAtCall = 0]]
            /\ UNCHANGED nDequeued
    /\ callTask' = [callTask EXCEPT ![c] = NoTask]
    /\ UNCHANGED <<nSubmit, nExit, initVars, workVars, dropVars, storeVars>>

\* ------------------------------------------------------------------ stores
Known(store, h) == store[h].present

\* Ancestors of h according to the relations store.
RECURSIVE PastOf(_, _)
PastOf(rel, h) ==
    IF ~Known(rel, h) THEN {}
    ELSE rel[h].parents \cup UNION {PastOf(rel, p) : p \in rel[h].parents}

\* Relations store: insert the parent set of h and add h to the child set
\* of every parent.
RelationsInsert(rel, h, ps) ==
    [x \in DOMAIN rel |->
        IF x = h
        THEN IF Known(rel, h) THEN rel[h]
             ELSE [present |-> TRUE, parents |-> ps, children |-> {}]
        ELSE IF x \in ps /\ Known(rel, x)
        THEN [rel[x] EXCEPT !.children = @ \cup {h}]
        ELSE rel[x]]

\* The interval of the root of the reachability tree.
RootCapacity == 16

\* Number of labels in the interval iv = <<start, end>>.
IntervalSize(iv) == iv[2] - iv[1] + 1

\* A reset: the root record is written afresh on every call.
ReachabilityInitReset(reach) ==
    [reach EXCEPT ![ORIGIN] =
        [present |-> TRUE, parent |-> ORIGIN, children |-> << >>, fcs |-> {},
         interval |-> <<1, RootCapacity>>]]

\* reachability::init: create the root of the reachability tree unless it
\* is there already.
ReachabilityInit(reach) ==
    IF Known(reach, ORIGIN) THEN reach
    ELSE [reach EXCEPT ![ORIGIN] =
            [present |-> TRUE, parent |-> ORIGIN, children |-> << >>, fcs |-> {},
             interval |-> <<1, RootCapacity>>]]

\* Number of blocks in the tree under x, x included.
RECURSIVE SubtreeSize(_, _), ForestSize(_, _)
SubtreeSize(reach, x) == 1 + ForestSize(reach, reach[x].children)
ForestSize(reach, cs) ==
    IF cs = << >> THEN 0
    ELSE SubtreeSize(reach, Head(cs)) + ForestSize(reach, Tail(cs))

\* y lies in the tree under a (followed along the tree-parent links).
RECURSIVE TreeAbove(_, _, _)
TreeAbove(reach, a, y) ==
    IF y = a THEN TRUE
    ELSE IF y = ORIGIN THEN FALSE
    ELSE TreeAbove(reach, a, reach[y].parent)

\* Reindex: the interval of y when the tree under a is laid out afresh in
\* iv. The children of a block share its interval less its last label, each
\* getting room for its own subtree plus an equal part of the slack.
RECURSIVE Reassigned(_, _, _, _)
Reassigned(reach, a, iv, y) ==
    IF y = a THEN iv
    ELSE LET cs == reach[a].children
             n == Len(cs)
             slack == (iv[2] - iv[1]) - ForestSize(reach, cs)
             j == CHOOSE i \in 1 .. n : TreeAbove(reach, cs[i], y)
             from == iv[1] + ForestSize(reach, SubSeq(cs, 1, j - 1))
                           + (j - 1) * (slack \div n)
             width == SubtreeSize(reach, cs[j]) + (slack \div n)
                           + (IF j = n THEN slack % n ELSE 0)
         IN  Reassigned(reach, cs[j], <<from, from + width - 1>>, y)

\* Reindex: the lowest block on the tree path above x whose interval has
\* room for its whole subtree; nothing outside its subtree is renumbered.
RECURSIVE ReindexRoot(_, _)
ReindexRoot(reach, x) ==
    IF x = ORIGIN \/ IntervalSize(reach[x].interval) >= SubtreeSize(reach, x)
    THEN x
    ELSE ReindexRoot(reach, reach[x].parent)

\* Reindex: renumber the affected subtree.
Reindex(reach, x) ==
    LET a == ReindexRoot(reach, x)
    IN  [y \in DOMAIN reach |->
            IF Known(reach, y) /\ TreeAbove(reach, a, y)
            THEN [reach[y] EXCEPT !.interval = Reassigned(reach, a, reach[a].interval, y)]
            ELSE reach[y]]

\* Reachability store: hang h under its tree parent with an interval inside
\* the free part of the parent's interval (reindexing when none is left),
\* and register it in the future covering set of every other DAG parent.
ReachabilityAdd(reach, h, treeParent, others) ==
    IF Known(reach, h) THEN reach
    ELSE LET p == reach[treeParent]
             from == IF p.children = << >> THEN p.interval[1]
                     ELSE reach[p.children[Len(p.children)]].interval[2] + 1
             to == p.interval[2] - 1
             iv == IF from <= to THEN <<from, from + (to - from) \div 2>>
                   ELSE <<0, -1>>
             linked ==
                [x \in DOMAIN reach |->
                    IF x = h
                    THEN [present |-> TRUE, parent |-> treeParent,
                          children |-> << >>, fcs |-> {}, interval |-> iv]
                    ELSE IF x = treeParent /\ Known(reach, x)
                    THEN [reach[x] EXCEPT !.children = Append(@, h)]
                    ELSE IF x \in others /\ Known(reach, x)
                    THEN [reach[x] EXCEPT !.fcs = @ \cup {h}]
                    ELSE reach[x]]
         IN  IF from <= to THEN linked ELSE Reindex(linked, treeParent)

\* Tree containment: the interval of a holds the interval of b.
IntervalContains(reach, a, b) ==
    /\ reach[a].interval[1] <= reach[b].interval[1]
    /\ reach[b].interval[2] <= reach[a].interval[2]

\* The ancestor query: tree containment, or a block of a's future covering
\* set that is b or a tree ancestor of b.
is_dag_ancestor_of(reach, a, b) ==
    \/ IntervalContains(reach, a, b)
    \/ \E f \in reach[a].fcs : IntervalContains(reach, f, b)

\* The anticone-size bound of the blue/red classification.
GhostdagK == 1

\* The parent with the greatest blue work; ties go to the lowest hash.
SelectedParent(gd, ps) ==
    CHOOSE p \in ps :
        \A q \in ps :
            \/ gd[p].blue_score > gd[q].blue_score
            \/ gd[p].blue_score = gd[q].blue_score /\ p <= q

\* Blocks that are neither ancestors nor descendants of x.
Anticone(rel, x, universe) ==
    {y \in universe : y # x /\ y \notin PastOf(rel, x) /\ x \notin PastOf(rel, y)}

\* Scan the mergeset in hash order; a candidate is blue when at most
\* GhostdagK of the blocks already blue lie in its anticone.
RECURSIVE ClassifyBlues(_, _, _)
ClassifyBlues(rel, todo, blues) ==
    IF todo = {} THEN blues
    ELSE LET c == CHOOSE x \in todo : \A y \in todo : x <= y
             ok == Cardinality(Anticone(rel, c, blues)) <= GhostdagK
         IN  ClassifyBlues(rel, todo \ {c}, IF ok THEN blues \cup {c} ELSE blues)

\* The GHOSTDAG record of a block with parent set ps.
GhostdagRecord(gd, rel, ps) ==
    LET sp == SelectedParent(gd, ps)
        past == ps \cup UNION {PastOf(rel, p) : p \in ps}
        mergeset == past \ ({sp} \cup PastOf(rel, sp))
        blues == ClassifyBlues(rel, mergeset, {sp}) \ {sp}
    IN  [present |-> TRUE, selected_parent |-> sp,
         blue_score |-> gd[sp].blue_score + Cardinality(blues) + 1,
         mergeset_blues |-> blues, mergeset_reds |-> mergeset \ blues]

GenesisGhostdag ==
    [present |-> TRUE, selected_parent |-> ORIGIN, blue_score |-> 0,
     mergeset_blues |-> {}, mergeset_reds |-> {}]

\* An upsert: a second write for a hash accumulates onto the stored record.
GhostdagUpsert(gd, h, rec) ==
    IF Known(gd, h)
    THEN [gd EXCEPT ![h] = [rec EXCEPT !.blue_score = gd[h].blue_score + rec.blue_score]]
    ELSE [gd EXCEPT ![h] = rec]

\* GHOSTDAG store: insert-if-absent; a hash that has a record keeps it.
GhostdagInsert(gd, h, rec) ==
    IF Known(gd, h) THEN gd ELSE [gd EXCEPT ![h] = rec]

\* Status store: mark h as header-processed.
StatusSet(st, h) == [st EXCEPT ![h] = "header-processed"]

\* -------------------------------------------------------------------- init
\* Consensus::init is entered; Service::start enters it the same way.
\* `limit` is the number of init calls the host makes at most.
InitCall(limit) ==
    /\ alive /\ dropPc = "none"
    /\ initPc = "idle"
    /\ nInit < limit
    /\ nInit' = nInit + 1
    /\ initPc' = "reachability"
    /\ UNCHANGED <<chanVars, callVars, workVars, dropVars, storeVars>>

\* reachability::init(self.reachability_store.write()).unwrap()
InitReachability ==
    /\ initPc = "reachability"
    /\ reachability' = ReachabilityInit(reachability)
    /\ initPc' = "genesis"
    /\ UNCHANGED <<chanVars, callVars, nInit, workVars, dropVars,
                   statuses, relations, ghostdag>>

\* self.header_processor.process_genesis_if_needed()
InitGenesis ==
    /\ initPc = "genesis"
    /\ IF statuses[GENESIS] = "header-processed"
       THEN UNCHANGED storeVars
       ELSE /\ relations' = RelationsInsert(relations, GENESIS, {})
            /\ reachability' = ReachabilityAdd(reachability, GENESIS, ORIGIN, {})
            /\ ghostdag' = GhostdagInsert(ghostdag, GENESIS, GenesisGhostdag)
            /\ statuses' = StatusSet(statuses, GENESIS)
    /\ initPc' = "spawn"
    /\ UNCHANGED <<chanVars, callVars, nInit, workVars, dropVars>>

\* thread::spawn(move || header_processor.worker()): every call of init
\* starts a worker thread of its own and returns its JoinHandle.
InitSpawn ==
    /\ initPc = "spawn"
    /\ wpc' = [wpc EXCEPT ![nInit] = "recv"]
    /\ initPc' = "idle"
    /\ UNCHANGED <<chanVars, callVars, nInit, cur, exitedBy, started, finished,
                   dropVars, storeVars>>

\* -------------------------------------------------------------------- drop
\* The wrong field: the relations store in place of the reachability store.
DropResultWrongStore == <<ConsensusFields.relations_store, ConsensusFields.ghostdag_store>>

\* The pair Consensus::drop returns.
DropResult == <<ConsensusFields.reachability_store, ConsensusFields.ghostdag_store>>

\* Consensus::drop(self) is entered: it takes the Consensus by value, so no
\* other call is in progress; it starts with self.signal_exit().
DropCall ==
    /\ alive /\ dropPc = "none"
    /\ initPc = "idle"
    /\ \A c \in Callers : callPc[c] # "blocked"
    /\ IF HasRoom(chan)
       THEN /\ chan' = Enqueue(chan, Stamp("Exit", 0))
            /\ sent' = Append(sent, Stamp("Exit", 0))
            /\ dropPc' = "returning"
       ELSE /\ dropPc' = "blocked"
            /\ UNCHANGED <<chan, sent>>
    /\ UNCHANGED <<nDequeued, callVars, initVars, workVars, alive, released, storeVars>>

\* The send of drop's sentinel, parked on a full channel, completes.
DropResume ==
    /\ dropPc = "blocked"
    /\ HasRoom(chan)
    /\ chan' = Enqueue(chan, Stamp("Exit", 0))
    /\ sent' = Append(sent, Stamp("Exit", 0))
    /\ dropPc' = "returning"
    /\ UNCHANGED <<nDequeued, callVars, initVars, workVars, alive, released, storeVars>>

\* drop returns (self.reachability_store, self.ghostdag_store); the other
\* fields of Self, the Sender among them, are dropped.
DropReturn ==
    /\ dropPc = "returning"
    /\ released' = DropResult
    /\ alive' = FALSE
    /\ dropPc' = "done"
    /\ UNCHANGED <<chanVars, callVars, initVars, workVars, storeVars>>

\* ------------------------------------------------------------------ worker
\* The bounded channel hands out the oldest pending task.
Front(q) == Head(q)
Rest(q) == Tail(q)

\* A loop that does not end: a worker that has exited receives again.
WorkerRecvAfterExit(w) ==
    /\ wpc[w] \in {"recv", "exited"}
    /\ chan # << >>
    /\ chan' = Rest(chan)
    /\ nDequeued' = nDequeued + 1
    /\ IF Front(chan).kind = "Exit"
       THEN /\ wpc' = [wpc EXCEPT ![w] = "exited"]
            /\ exitedBy' = [exitedBy EXCEPT ![w] = Front(chan).id]
            /\ UNCHANGED <<cur, started>>
       ELSE /\ wpc' = [wpc EXCEPT ![w] = "validate"]
            /\ cur' = [cur EXCEPT ![w] = Front(chan)]
            /\ started' = Append(started, Front(chan).id)
            /\ UNCHANGED exitedBy
    /\ UNCHANGED <<sent, callVars, initVars, finished, dropVars, storeVars>>

\* The worker takes the next task: the sentinel ends the loop and the
\* thread returns; a block starts its update sequence.
WorkerRecv(w) ==
    /\ wpc[w] = "recv"
    /\ chan # << >>
    /\ chan' = Rest(chan)
    /\ nDequeued' = nDequeued + 1
    /\ IF Front(chan).kind = "Exit"
       THEN /\ wpc' = [wpc EXCEPT ![w] = "exited"]
            /\ exitedBy' = [exitedBy EXCEPT ![w] = Front(chan).id]
            /\ UNCHANGED <<cur, started>>
       ELSE /\ wpc' = [wpc EXCEPT ![w] = "validate"]
            /\ cur' = [cur EXCEPT ![w] = Front(chan)]
            /\ started' = Append(started, Front(chan).id)
            /\ UNCHANGED exitedBy
    /\ UNCHANGED <<sent, callVars, initVars, finished, dropVars, storeVars>>

\* The channel is empty and its Sender was dropped with the Consensus:
\* recv fails and the worker folds up.
WorkerDisconnected(w) ==
    /\ wpc[w] = "recv"
    /\ chan = << >>
    /\ ~alive
    /\ wpc' = [wpc EXCEPT ![w] = "exited"]
    /\ UNCHANGED <<chanVars, callVars, initVars, cur, exitedBy, started, finished,
                   dropVars, storeVars>>

\* Every declared parent has its relations, reachability and GHOSTDAG records.
ParentsKnown(h) ==
    \A p \in Parents(h) :
        Known(relations, p) /\ Known(reachability, p) /\ Known(ghostdag, p)

\* The task of worker w is over: the worker goes back to the channel.
TaskDone(w) ==
    /\ wpc' = [wpc EXCEPT ![w] = "recv"]
    /\ finished' = Append(finished, cur[w].id)
    /\ cur' = [cur EXCEPT ![w] = NoTask]
    /\ UNCHANGED <<exitedBy, started>>

\* Step 1: structural preconditions; a block with an unknown parent is
\* rejected before any store is written.
WorkerValidate(w) ==
    /\ wpc[w] = "validate"
    /\ IF ParentsKnown(cur[w].block)
       THEN /\ wpc' = [wpc EXCEPT ![w] = "relations"]
            /\ UNCHANGED <<cur, exitedBy, started, finished>>
       ELSE TaskDone(w)
    /\ UNCHANGED <<chanVars, callVars, initVars, dropVars, storeVars>>

\* The wrong order: the block is marked header-processed together with the
\* first write of its update sequence.
WorkerRelationsMarks(w) ==
    /\ wpc[w] = "relations"
    /\ relations' = RelationsInsert(relations, cur[w].block, Parents(cur[w].block))
    /\ statuses' = StatusSet(statuses, cur[w].block)
    /\ wpc' = [wpc EXCEPT ![w] = "reachability"]
    /\ UNCHANGED <<chanVars, callVars, initVars, cur, exitedBy, started, finished,
                   dropVars, reachability, ghostdag>>

\* Step 2: register relations.
WorkerRelations(w) ==
    /\ wpc[w] = "relations"
    /\ relations' = RelationsInsert(relations, cur[w].block, Parents(cur[w].block))
    /\ wpc' = [wpc EXCEPT ![w] = "reachability"]
    /\ UNCHANGED <<chanVars, callVars, initVars, cur, exitedBy, started, finished,
                   dropVars, statuses, reachability, ghostdag>>

\* A cancellable variant: with the sentinel next on the channel the worker
\* abandons the block it holds and exits.
WorkerReachabilityCancellable(w) ==
    /\ wpc[w] = "reachability"
    /\ IF chan # << >> /\ Front(chan).kind = "Exit"
       THEN /\ wpc' = [wpc EXCEPT ![w] = "exited"]
            /\ UNCHANGED reachability
       ELSE /\ LET h == cur[w].block
                   sp == SelectedParent(ghostdag, Parents(h))
               IN  reachability' = ReachabilityAdd(reachability, h, sp, Parents(h) \ {sp})
            /\ wpc' = [wpc EXCEPT ![w] = "ghostdag"]
    /\ UNCHANGED <<chanVars, callVars, initVars, cur, exitedBy, started, finished,
                   dropVars, statuses, relations, ghostdag>>

\* Step 3: extend the reachability tree under the selected parent.
WorkerReachability(w) ==
    /\ wpc[w] = "reachability"
    /\ LET h == cur[w].block
           sp == SelectedParent(ghostdag, Parents(h))
       IN  reachability' = ReachabilityAdd(reachability, h, sp, Parents(h) \ {sp})
    /\ wpc' = [wpc EXCEPT ![w] = "ghostdag"]
    /\ UNCHANGED <<chanVars, callVars, initVars, cur, exitedBy, started, finished,
                   dropVars, statuses, relations, ghostdag>>

\* Step 4: compute and store the GHOSTDAG record.
WorkerGhostdag(w) ==
    /\ wpc[w] = "ghostdag"
    /\ LET h == cur[w].block
       IN  ghostdag' = GhostdagInsert(ghostdag, h,
                            GhostdagRecord(ghostdag, relations, Parents(h)))
    /\ wpc' = [wpc EXCEPT ![w] = "status"]
    /\ UNCHANGED <<chanVars, callVars, initVars, cur, exitedBy, started, finished,
                   dropVars, statuses, relations, reachability>>

\* Step 5: mark the block header-processed.
WorkerStatus(w) ==
    /\ wpc[w] = "status"
    /\ statuses' = StatusSet(statuses, cur[w].block)
    /\ TaskDone(w)
    /\ UNCHANGED <<chanVars, callVars, initVars, dropVars, relations, reachability,
                   ghostdag>>

WorkerStep(w) ==
    \/ WorkerRecv(w)
    \/ WorkerDisconnected(w)
    \/ WorkerValidate(w)
    \/ WorkerRelations(w)
    \/ WorkerReachability(w)
    \/ WorkerGhostdag(w)
    \/ WorkerStatus(w)

\* ----------------------------------------------------------- specification
CallerStep ==
    \E c \in Callers :
        \/ \E b \in Blocks : validate_and_insert_block(c, b)
        \/ signal_exit(c)
        \/ stop(c)
        \/ SendResume(c)

InitSteps == InitReachability \/ InitGenesis \/ InitSpawn

DropSteps == DropCall \/ DropResume \/ DropReturn

init == InitCall(MaxInit)

start == init

Next ==
    \/ CallerStep
    \/ init
    \/ start
    \/ InitSteps
    \/ DropSteps
    \/ \E w \in Workers : WorkerStep(w)

Spec == Init /\ [][Next]_vars

\* The host honours the contract of init: it calls it once.
initOnce == InitCall(1)

NextOnce ==
    \/ CallerStep
    \/ initOnce
    \/ InitSteps
    \/ DropSteps
    \/ \E w \in Workers : WorkerStep(w)

SpecOnce == Init /\ [][NextOnce]_vars

\* The scheduler runs every thread that can take a step: worker threads,
\* the thread inside init, parked senders and the thread inside drop. Which
\* calls the host makes, and when, is left open.
Fairness ==
    /\ \A w \in Workers : WF_vars(WorkerStep(w))
    /\ WF_vars(InitSteps)
    /\ \A c \in Callers : WF_vars(SendResume(c))
    /\ WF_vars(DropResume \/ DropReturn)

FairSpec == Spec /\ Fairness

FairSpecOnce == SpecOnce /\ Fairness

\* ------------------------------------------------- the stores on their own
\* The per-block update sequence run on every DAG of NReach headers: the
\* headers arrive in hash order, each with any non-empty set of processed
\* parents. No thread other than the one applying the sequence takes part.
ReachHashes == GENESIS .. (GENESIS + NReach)

Processed == {h \in DOMAIN statuses : statuses[h] = "header-processed"}

ReachInit ==
    /\ alive = TRUE
    /\ chan = << >>
    /\ sent = << >>
    /\ nDequeued = 0
    /\ callPc = [c \in Callers |-> "idle"]
    /\ callTask = [c \in Callers |-> NoTask]
    /\ callInfo = [c \in Callers |-> NoInfo]
    /\ nSubmit = 0
    /\ nExit = 0
    /\ initPc = "idle"
    /\ nInit = 0
    /\ wpc = [w \in Workers |-> "unspawned"]
    /\ cur = [w \in Workers |-> NoTask]
    /\ exitedBy = [w \in Workers |-> 0]
    /\ started = << >>
    /\ finished = << >>
    /\ dropPc = "none"
    /\ released = << >>
    /\ statuses = StatusSet([h \in ReachHashes |-> "unknown"], GENESIS)
    /\ relations = RelationsInsert([h \in ReachHashes |-> NoRec], GENESIS, {})
    /\ reachability =
          ReachabilityAdd(ReachabilityInit([h \in {ORIGIN} \cup ReachHashes |-> NoRec]),
                          GENESIS, ORIGIN, {})
    /\ ghostdag = GhostdagInsert([h \in ReachHashes |-> NoRec], GENESIS, GenesisGhostdag)

\* Steps 2 to 5 of the per-block sequence for header h with parents ps.
ProcessHeader(h, ps) ==
    /\ h \in ReachHashes
    /\ h \notin Processed
    /\ ps # {} /\ ps \subseteq Processed
    /\ LET sp == SelectedParent(ghostdag, ps)
           rel == RelationsInsert(relations, h, ps)
       IN  /\ relations' = rel
           /\ reachability' = ReachabilityAdd(reachability, h, sp, ps \ {sp})
           /\ ghostdag' = GhostdagInsert(ghostdag, h, GhostdagRecord(ghostdag, rel, ps))
           /\ statuses' = StatusSet(statuses, h)
    /\ UNCHANGED <<chanVars, callVars, initVars, workVars, dropVars>>

ReachNext ==
    \E ps \in SUBSET ReachHashes : ProcessHeader(GENESIS + Cardinality(Processed), ps)

ReachSpec == ReachInit /\ [][ReachNext]_vars

\* ------------------------------------------------------------------ claims
Processing(w) == wpc[w] \in {"validate", "relations", "reachability", "ghostdag", "status"}

IsPrefix(a, b) == Len(a) <= Len(b) /\ \A i \in 1 .. Len(a) : a[i] = b[i]

\* C1: Process tasks are processed in exactly the order in which they were
\* put on the channel, one at a time: processing begins in increasing
\* channel position, a task's processing ends before the next one begins,
\* and no two blocks are in processing at the same time.
C1_FifoSerial ==
    /\ \A i, j \in 1 .. Len(started) : i < j => started[i] < started[j]
    /\ IsPrefix(finished, started)
    /\ Len(started) <= Len(finished) + 1
    /\ Cardinality({w \in Workers : Processing(w)}) <= 1

\* C2: backpressure. The channel never holds more than Capacity tasks; a
\* caller is parked only by a call made on a full channel (a call made with
\* room returns without waiting); and a parked call returns only after a
\* task has been dequeued since the call was made.
C2_Backpressure ==
    /\ [](Len(chan) <= Capacity)
    /\ [](\A c \in Callers :
            callPc[c] = "blocked" => callInfo[c].lenAtCall = Capacity)
    /\ [][\A c \in Callers :
            (callPc[c] = "blocked" /\ callPc'[c] = "idle")
                => nDequeued > callInfo[c].deqAtCall]_vars

\* A validate_and_insert_block call that was parked on the full channel has
\* returned with its task accepted, after a call that returned at once.
C2_Witness ==
    /\ nDequeued >= 1
    /\ \E c \in Callers :
        /\ callPc[c] = "idle"
        /\ callInfo[c].kind = "Process"
        /\ callInfo[c].waited
        /\ callInfo[c].result = "accepted"
    /\ \E c \in Callers : callInfo[c].result = "accepted" /\ ~callInfo[c].waited

\* Positions in the channel's history of the tasks whose processing ended.
Finished == {finished[i] : i \in 1 .. Len(finished)}

\* A signal_exit / Service::stop call made after init had returned.
ExitCalledAfterInit ==
    \E c \in Callers : callInfo[c].kind = "Exit" /\ callInfo[c].afterInit

\* Every worker thread that init spawned has returned.
WorkersTerminated ==
    /\ initPc = "idle"
    /\ \A w \in Workers : wpc[w] \in {"unspawned", "exited"}

\* C3: shutdown. Once init was called and signal_exit (or Service::stop) is
\* called after it, the worker thread eventually terminates (a join on the
\* handle init returned does not hang), and a worker that has honored the
\* sentinel has processed every Process task enqueued ahead of it.
C3_Shutdown ==
    /\ ExitCalledAfterInit ~> WorkersTerminated
    /\ [](\A w \in Workers : \A i \in 1 .. Len(sent) :
            (/\ exitedBy[w] # 0
             /\ sent[exitedBy[w]].afterInit
             /\ i < exitedBy[w]
             /\ sent[i].kind = "Process")
                => i \in Finished)

\* The longest history the channel can have: every call, and drop's sentinel.
MaxSent == MaxSubmit + MaxExit + 1

\* The positions of the Process tasks among the first n tasks of the
\* channel's history, in order.
RECURSIVE ProcessIds(_)
ProcessIds(n) ==
    IF n = 0 THEN << >>
    ELSE IF sent[n].kind = "Process" THEN Append(ProcessIds(n - 1), n)
    ELSE ProcessIds(n - 1)

\* Position i of the history holds a Process task with no sentinel before it.
AheadOfFirstSentinel(i) ==
    /\ i <= Len(sent)
    /\ \A j \in 1 .. i : sent[j].kind = "Process"

\* validate_and_insert_block calls that have returned.
AcceptedCalls ==
    nSubmit - Cardinality({c \in Callers :
                            callPc[c] # "idle" /\ callInfo[c].kind = "Process"})

\* C4: no task is dropped or duplicated. Every call that returned has its
\* task in the channel's history; the channel holds exactly the tasks not
\* yet dequeued, so a worker waiting on the empty channel resumes with the
\* next task enqueued; every dequeued Process task is taken into processing
\* exactly once; and once init has returned, every Process task ahead of the
\* first sentinel is eventually processed.
C4_NoDropNoDup ==
    /\ [](Len(ProcessIds(Len(sent))) = AcceptedCalls)
    /\ [](chan = SubSeq(sent, nDequeued + 1, Len(sent)))
    /\ [](started = ProcessIds(nDequeued))
    /\ \A i \in 1 .. MaxSent :
        (InitReturned /\ AheadOfFirstSentinel(i)) ~> (i \in Finished)

\* A worker that waited on the empty channel has processed a task enqueued
\* later, and another task ahead of the first sentinel has been processed.
C4_Witness ==
    /\ Len(finished) >= 2
    /\ AheadOfFirstSentinel(2)
    /\ chan = << >>
    /\ \E w \in Workers : wpc[w] = "recv"

\* C5: the sentinel is the last task honored. No Process task that was
\* enqueued after an Exit sentinel is ever taken into processing.
C5_SentinelLast ==
    \A k \in 1 .. Len(started) :
        \A j \in 1 .. Len(sent) :
            j < started[k] => sent[j].kind # "Exit"

\* C6: ingestion after shutdown is fatal to the caller. A
\* validate_and_insert_block call made after the worker has honored the
\* sentinel and terminated ends in a failure of the call: it is neither
\* accepted as a queued task nor parked.
C6_LateIngestionFails ==
    \A c \in Callers :
        (callInfo[c].kind = "Process" /\ callInfo[c].afterStop)
            => (callPc[c] = "panicked" /\ callInfo[c].result = "failed")

\* Worker threads that init has spawned so far.
Spawned == {w \in Workers : wpc[w] # "unspawned"}

\* C7: init does not double-spawn. After any number of init calls at most
\* one pipeline worker thread has ever been spawned.
C7_SingleWorker == Cardinality(Spawned) <= 1

SentinelEnqueued == \E i \in 1 .. Len(sent) : sent[i].kind = "Exit"

\* C8: without a sentinel the worker never terminates. While neither
\* signal_exit, Service::stop nor drop has been called no sentinel is in
\* the channel's history, and while no sentinel has been enqueued no worker
\* thread has returned.
C8_NoSentinelNoExit ==
    /\ (nExit = 0 /\ dropPc = "none") => ~SentinelEnqueued
    /\ ~SentinelEnqueued => \A w \in Workers : wpc[w] # "exited"

\* The worker has processed every submitted block and waits on the empty
\* channel; no sentinel was ever enqueued.
C8_Witness ==
    /\ ~SentinelEnqueued
    /\ Len(finished) = MaxSubmit
    /\ chan = << >>
    /\ \E w \in Workers : wpc[w] = "recv"

\* Sentinels in the channel's history.
SentinelCount == Cardinality({i \in 1 .. Len(sent) : sent[i].kind = "Exit"})

\* signal_exit / Service::stop calls whose sentinel has been enqueued.
AcceptedExitCalls ==
    nExit - Cardinality({c \in Callers :
                            callPc[c] # "idle" /\ callInfo[c].kind = "Exit"})

\* C9: drop enqueues exactly one sentinel and returns the reachability and
\* GHOSTDAG store handles the pipeline was wired with, and no step of drop
\* changes a record of any store.
C9_DropReleases ==
    /\ [](SentinelCount = AcceptedExitCalls
                            + (IF dropPc \in {"returning", "done"} THEN 1 ELSE 0))
    /\ [](dropPc = "done" =>
            released = <<HeaderProcessorWiring.reachability_store,
                         HeaderProcessorWiring.ghostdag_store>>)
    /\ [][dropPc' # dropPc => UNCHANGED storeVars]_vars

\* drop has returned the handles after a block was processed: the block's
\* records are in the stores the handles name.
C9_Witness ==
    /\ dropPc = "done"
    /\ released # << >>
    /\ \E b \in Blocks :
        /\ statuses[b] = "header-processed"
        /\ Known(reachability, b)
        /\ Known(ghostdag, b)

\* C10: the GHOSTDAG store is append-only. A record, once written for a
\* hash, is the same in every later state.
C10_GhostdagAppendOnly ==
    [][\A h \in Hashes : Known(ghostdag, h) => ghostdag'[h] = ghostdag[h]]_vars

\* The same header has been processed twice, its GHOSTDAG record in place.
C10_Witness ==
    \E i, j \in Finished :
        /\ i < j
        /\ sent[i].block = sent[j].block
        /\ Known(ghostdag, sent[i].block)
        /\ statuses[sent[i].block] = "header-processed"

C11_QuerySound ==
    \A a, b \in Processed :
        is_dag_ancestor_of(reachability, a, b) => (a = b \/ a \in PastOf(relations, b))

\* The query answers every tree ancestry and every direct parent.
C11_ParentsAnswered ==
    \A a, b \in Processed :
        (a = b \/ a \in relations[b].parents \/ TreeAbove(reachability, a, b))
            => is_dag_ancestor_of(reachability, a, b)

\* Genesis has its record in every store and is marked header-processed.
GenesisPresent ==
    /\ Known(relations, GENESIS)
    /\ Known(reachability, GENESIS)
    /\ Known(ghostdag, GENESIS)
    /\ statuses[GENESIS] = "header-processed"

RootPresent == Known(reachability, ORIGIN)

\* C12: init ensures the reachability root first, then processes genesis,
\* then spawns the worker: the genesis step runs only with the root in
\* place and the spawn only with genesis in every store; no Process task,
\* those enqueued before init included, is in processing while genesis is
\* absent from a store; and a bootstrap step taken when root and genesis
\* exist changes no store.
C12_Bootstrap ==
    /\ [](/\ initPc \in {"genesis", "spawn"} => RootPresent
          /\ initPc = "spawn" => GenesisPresent
          /\ \A w \in Workers : wpc[w] # "unspawned" => RootPresent /\ GenesisPresent
          /\ \A w \in Workers : Processing(w) => GenesisPresent
          /\ started # << >> => GenesisPresent)
    /\ [][(/\ initPc \in {"reachability", "genesis"}
           /\ initPc' # initPc
           /\ RootPresent /\ GenesisPresent) => UNCHANGED storeVars]_vars

\* A second call of init has redone the bootstrap with root and genesis in
\* place, and a block enqueued before any init returned (it is ahead of a
\* sentinel that was enqueued before any init returned) has been processed.
C12_Witness ==
    /\ nInit = 2 /\ initPc = "spawn"
    /\ \E i \in 1 .. Len(finished), j \in 1 .. Len(sent) :
          /\ sent[j].kind = "Exit" /\ ~sent[j].afterInit
          /\ finished[i] < j
          /\ statuses[sent[finished[i]].block] = "header-processed"

\* Worker w is inside the writes of an update sequence (steps 2 to 5).
Writing(w) == wpc[w] \in {"relations", "reachability", "ghostdag", "status"}

\* The thread inside init is at a bootstrap step that writes a store.
InitWriting ==
    \/ initPc = "reachability" /\ ~RootPresent
    \/ initPc = "genesis" /\ ~GenesisPresent

\* The threads that are in the middle of writing the stores.
Writers == {w \in Workers : Writing(w)} \cup (IF InitWriting THEN {0} ELSE {})

\* C13: single writer. While a worker thread is running, a step that
\* changes a store is a step of a worker inside its update sequence (never
\* one of a thread calling validate_and_insert_block, signal_exit or init);
\* and at no time are two threads in the middle of writing the stores.
C13_SingleWriter ==
    /\ [][(storeVars' # storeVars /\ \E w \in Workers : Running(w))
            => \E w \in Workers : Writing(w) /\ wpc'[w] # wpc[w]]_vars
    /\ [](Cardinality(Writers) <= 1)

HasUnprocessedParent(h) ==
    \E p \in Parents(h) : statuses[p] # "header-processed"

\* C15: a Process task whose header has a parent that has not been
\* processed is rejected, and the relations, reachability, GHOSTDAG and
\* status stores stay exactly as they were when it was dequeued: from the
\* dequeue to the rejection no store changes, and the task goes no further
\* than its validation.
C15_RejectionLeavesState ==
    [][\A w \in Workers :
          (wpc[w] = "validate" /\ HasUnprocessedParent(cur[w].block))
              => /\ storeVars' = storeVars
                 /\ wpc'[w] \in {"validate", "recv"}]_vars

\* The rejecting step itself writes no store.
C15_RejectStepWritesNothing ==
    [][\A w \in Workers :
          (wpc[w] = "validate" /\ wpc'[w] = "recv") => storeVars' = storeVars]_vars

\* A block was rejected: its task is over and the block has no status.
C15_Rejected ==
    \E i \in 1 .. Len(finished) :
        /\ sent[finished[i]].block \in Blocks
        /\ statuses[sent[finished[i]].block] = "unknown"

\* C16: no per-task cancellation. A signal_exit (or stop, or drop) issued
\* while a block is being processed changes nothing of the worker; a worker
\* takes a task, the sentinel included, only from the receive position with
\* no block in hand, so a block that was dequeued goes through to the end
\* of its sequence before its worker looks at the sentinel; and a worker
\* that has exited has left no dequeued block unfinished.
C16_NoCancellation ==
    /\ [][(nExit' # nExit \/ dropPc' # dropPc) => UNCHANGED <<workVars, storeVars>>]_vars
    /\ [][\A w \in Workers :
            (nDequeued' # nDequeued /\ wpc'[w] # wpc[w])
                => wpc[w] = "recv" /\ cur[w] = NoTask]_vars
    /\ [][\A w \in Workers : Processing(w) => wpc'[w] # "exited"]_vars
    /\ [](\A w \in Workers : wpc[w] = "exited" => cur[w] = NoTask)
    /\ [](Len(started) = Len(finished) + Cardinality({w \in Workers : Processing(w)}))

\* A sentinel was enqueued while a block was being processed; that block
\* was finished and marked, and then a worker honored the sentinel.
C16_Witness ==
    \E w \in Workers :
        /\ wpc[w] = "exited" /\ exitedBy[w] # 0
        /\ sent[exitedBy[w]].busy
        /\ Len(started) = Len(finished)
        /\ \E b \in Blocks : statuses[b] = "header-processed"

Quiescent == dropPc = "done" /\ \A w \in Workers : ~Running(w)

DropStuck ==
    /\ dropPc = "blocked" /\ ~HasRoom(chan)
    /\ nInit >= 1 /\ initPc = "idle"
    /\ \A w \in Workers : ~Running(w)

\* C18: exit signalling always completes. In an execution in which init
\* was called, every call of signal_exit or Service::stop that is parked
\* eventually returns, every call of drop eventually returns, and drop is
\* never parked where its send cannot complete; a sentinel enqueued earlier
\* and blocks submitted after it make no difference.
C18_ExitSignallingCompletes ==
    /\ [](~DropStuck)
    /\ \A c \in Callers :
          (callPc[c] = "blocked" /\ callTask[c].kind = "Exit" /\ nInit >= 1)
              ~> (callPc[c] # "blocked")
    /\ (dropPc \in {"blocked", "returning"} /\ nInit >= 1) ~> (dropPc = "done")

=============================================================================
